---- MODULE Spec2Model ----
(***************************************************************************)
(* Reliability based CMA-ES learner of pypuf                                *)
(* (src/pypuf/learner/evolution_strategies/cmaes.py).                       *)
(*                                                                          *)
(* The specifications share the variables:                                  *)
(*   Spec       __init__ and learn() of a learner on a training set; one    *)
(*              search of the CMA optimizer is one step, its result chosen  *)
(*              freely among the ternary vectors;                           *)
(*   SpecPuf    __init__ (reliabilities_puf) on every response matrix;      *)
(*   SpecObj    one call of objective() on every population of two          *)
(*              candidates, inside a search;                                *)
(*   SpecVote   the end of learn() (test_model, polarity) on every          *)
(*              response matrix;                                            *)
(*   SpecShape  __init__ and learn() on a training set whose challenges     *)
(*              and responses differ in number;                             *)
(*   SpecRerun  learn() of a learner and then of a second learner made      *)
(*              with the same arguments, the optimizer being a function     *)
(*              of its input;                                               *)
(*   SpecDeep   learn() of a learner of K + 1 chains, from a pool of K      *)
(*              chains on.                                                  *)
(*                                                                          *)
(* Numbers.  All weights, challenges and responses of the model are         *)
(* integers.  Values the code holds as fractions are kept exactly:          *)
(*   - a measured reliability |R/2 - sum| is held in HALVES (the integer    *)
(*     |R - 2*sum|), because R/2 is a half-integer for odd R; a Pearson     *)
(*     correlation does not change with this scaling;                       *)
(*   - a Pearson correlation cov / sqrt(sxx * syy) is held as the record    *)
(*     [nan, int, num, den2] of the value int + num / sqrt(den2), with num  *)
(*     and den2 scaled by the same power of the vector length, so that      *)
(*     comparisons of |corr| with a rational threshold are exact.           *)
(*     nan = TRUE is the result of IEEE's 0/0.                              *)
(***************************************************************************)
EXTENDS Integers, Sequences, FiniteSets, TLC

\* ------------------------------------------------------------------ bounds
\* n, the length of a chain (the test uses 16)
NLen == 3
\* N, the number of challenges of a training set
NumCh == 2
\* R, the number of repeated measurements of a challenge in a training set
NumMeas == 2
\* n of the learner whose objective() is evaluated on whole populations
ObjLen == 2
\* total number of search attempts the model follows learn() for
MaxAttempts == 3

\* ------------------------------------------------------- program constants
\* k, the number of chains (test_reliability_based_cmaes.py: k = 2)
K == 2
\* the duplicate threshold 0.5 of learn(), as DupNum / DupDen
DupNum == 1
DupDen == 2
\* the polarity threshold 0.5 of learn(), as FlipNum / FlipDen
FlipNum == 1
FlipDen == 2
\* the initial epsilon of a search
InitEpsilon == 2

\* ------------------------------------------------------------ arithmetic
Abs(x) == IF x < 0 THEN -x ELSE x

Sign(x) == IF x > 0 THEN 1 ELSE IF x < 0 THEN -1 ELSE 0

RECURSIVE SeqSum(_)
SeqSum(s) == IF s = <<>> THEN 0 ELSE Head(s) + SeqSum(Tail(s))

RECURSIVE SeqProd(_)
SeqProd(s) == IF s = <<>> THEN 1 ELSE Head(s) * SeqProd(Tail(s))

Dot(a, b) == SeqSum([j \in 1..Len(a) |-> a[j] * b[j]])

Neg(v) == [j \in 1..Len(v) |-> -v[j]]

\* all sequences of length len over the set S
Vectors(S, len) == [1..len -> S]

\* all matrices of rows x cols entries of S, as sequences of rows
Matrices(S, rows, cols) == [1..rows -> Vectors(S, cols)]

\* ----------------------------------------------- reliability of the PUF
\* pypuf.tools.transform_challenge_11_to_01: 1 -> 0 and -1 -> 1, elementwise
transform_challenge_11_to_01(m) ==
    [c \in 1..Len(m) |-> [r \in 1..Len(m[c]) |-> IF m[c][r] = -1 THEN 1
                                                  ELSE IF m[c][r] = 1 THEN 0
                                                  ELSE m[c][r]]]

\* `-1 in response_bits`
HasMinusOne(m) == \E c \in 1..Len(m) : \E r \in 1..Len(m[c]) : m[c][r] = -1

\* a plausible slip: the +-1 entries are summed without the 0/1 conversion
reliabilities_puf_unconverted(response_bits) ==
    [c \in 1..Len(response_bits) |->
        Abs(Len(response_bits[1]) - 2 * SeqSum(response_bits[c]))]

\* a plausible slip: the absolute value is forgotten
reliabilities_puf_signed(response_bits) ==
    LET bits == IF HasMinusOne(response_bits)
                THEN transform_challenge_11_to_01(response_bits)
                ELSE response_bits
    IN  [c \in 1..Len(bits) |-> Len(bits[1]) - 2 * SeqSum(bits[c])]

\* reliabilities_puf, in halves: 2 * |shape[1]/2 - sum(row)|
reliabilities_puf(response_bits) ==
    LET bits == IF HasMinusOne(response_bits)
                THEN transform_challenge_11_to_01(response_bits)
                ELSE response_bits
    IN  [c \in 1..Len(bits) |-> Abs(Len(bits[1]) - 2 * SeqSum(bits[c]))]

\* --------------------------------------------------------- exact values
\* the value int + num / sqrt(den2); nan is IEEE's result of 0/0
Real(a, b, d) == [nan |-> FALSE, int |-> a, num |-> b, den2 |-> d]

NaN == [nan |-> TRUE, int |-> 0, num |-> 0, den2 |-> 0]

\* the quotient cov / sqrt(den2) of floating point numbers; 0/0 is NaN
Quotient(cov, den2) == IF den2 = 0 THEN NaN ELSE Real(0, cov, den2)

\* r < 0, false of NaN like every IEEE comparison
IsNegative(r) ==
    /\ ~r.nan
    /\ IF r.int >= 0
       THEN r.num < 0 /\ r.int * r.int * r.den2 < r.num * r.num
       ELSE r.num <= 0 \/ r.int * r.int * r.den2 > r.num * r.num

\* 1 - r
OneMinus(r) == IF r.nan THEN NaN ELSE Real(1 - r.int, -r.num, r.den2)

\* tf.abs
RealAbs(r) == IF IsNegative(r) THEN Real(-r.int, -r.num, r.den2) ELSE r

\* r is the number v exactly
IsValue(r, v) == ~r.nan /\ r.num = 0 /\ r.int = v

\* tf.abs(r) > num / den for a correlation r (r.int = 0); false of NaN
AbsGreater(r, num, den) ==
    /\ ~r.nan
    /\ den * den * r.num * r.num > num * num * r.den2

\* |r| = num / den and |r| < num / den for a correlation r; false of NaN
AbsEqual(r, num, den) ==
    /\ ~r.nan
    /\ den * den * r.num * r.num = num * num * r.den2

AbsLess(r, num, den) ==
    /\ ~r.nan
    /\ den * den * r.num * r.num < num * num * r.den2

\* ------------------------------------------------------------ transposes
Transpose(m) == [c \in 1..Len(m[1]) |-> [p \in 1..Len(m) |-> m[p][c]]]

\* column p of a matrix given as a sequence of rows
Column(m, p) == [c \in 1..Len(m) |-> m[c][p]]

\* --------------------------------------------- reliability of the model
\* a plausible slip: >= instead of >
reliabilities_model_geq(delay_diffs, epsilon) ==
    LET t == Transpose([p \in 1..Len(delay_diffs) |->
                          [c \in 1..Len(delay_diffs[p]) |-> Abs(delay_diffs[p][c])]])
    IN  [c \in 1..Len(t) |-> [p \in 1..Len(t[c]) |->
                                 IF t[c][p] >= epsilon[p] THEN 1 ELSE 0]]

\* reliabilities_model: delay_diffs has one row per candidate and one column
\* per challenge; epsilon (one per candidate) is broadcast along the last
\* axis of the transposed matrix; the boolean result is cast to 0.0 / 1.0
reliabilities_model(delay_diffs, epsilon) ==
    LET t == Transpose([p \in 1..Len(delay_diffs) |->
                          [c \in 1..Len(delay_diffs[p]) |-> Abs(delay_diffs[p][c])]])
    IN  [c \in 1..Len(t) |-> [p \in 1..Len(t[c]) |->
                                 IF t[c][p] > epsilon[p] THEN 1 ELSE 0]]

\* --------------------------------------------------------------- Pearson
\* len * (v - mean(v)): the centered vector, scaled to stay integral
Centered(v) == [c \in 1..Len(v) |-> Len(v) * v[c] - SeqSum(v)]

\* tf_pearsonr: x has one row per challenge and one column per candidate,
\* y one entry per challenge; one correlation per candidate
tf_pearsonr(x, y) ==
    [p \in 1..Len(x[1]) |->
        LET cx == Centered(Column(x, p))
            cy == Centered(y)
        IN  Quotient(Dot(cy, cx), Dot(cx, cx) * Dot(cy, cy))]

\* the correlation of two vectors of length len from their sums and products:
\* len^2 * covariance and len^4 * the product of the two variances
Correlation(len, sw, sv, sww, svv, swv) ==
    Quotient(len * swv - sw * sv, (len * sww - sw * sw) * (len * svv - sv * sv))

\* scipy.stats.pearsonr(w, v)[0]
pearsonr(w, v) ==
    Correlation(Len(w), SeqSum(w), SeqSum(v), Dot(w, w), Dot(v, v), Dot(w, v))

\* ------------------------------------------------------------- objective
\* tf.linalg.matmul(weights, current_challenges.T)
DelayDiffs(weights, chal) ==
    [p \in 1..Len(weights) |-> [c \in 1..Len(chal) |-> Dot(weights[p], chal[c])]]

\* state[:, :n]
Weights(state, n) == [p \in 1..Len(state) |-> SubSeq(state[p], 1, n)]

\* state[:, -1]
Epsilon(state) == [p \in 1..Len(state) |-> state[p][Len(state[p])]]

\* the modelled reliabilities objective() computes for a population
ModelReliabilities(state, n, chal) ==
    reliabilities_model(DelayDiffs(Weights(state, n), chal), Epsilon(state))

\* ReliabilityBasedCMAES.objective: |1 - corr| per candidate
objective(state, n, chal, puf_rel) ==
    LET corr == tf_pearsonr(ModelReliabilities(state, n, chal), puf_rel)
    IN  [p \in 1..Len(corr) |-> RealAbs(OneMinus(corr[p]))]

\* ------------------------------------------------------------ LTF array
\* LTFArray.transform_id: every chain sees the challenge itself, shape (N, k, n)
transform_id(chal, k) == [c \in 1..Len(chal) |-> [i \in 1..k |-> chal[c]]]

\* LTFArray.combiner_xor: the product of the chains' weighted sums
combiner_xor(sums) == SeqProd(sums)

\* LTFArray(weights, transform_id, combiner_xor)
LTFArray(weights) == [weight_array |-> weights]

\* LTFArray.eval: the sign of the combined weighted sums, one per challenge
Eval(model, chal) ==
    LET lin == transform_id(chal, Len(model.weight_array))
    IN  [c \in 1..Len(chal) |->
            Sign(combiner_xor([i \in 1..Len(model.weight_array) |->
                                  Dot(model.weight_array[i], lin[c][i])]))]

\* a plausible slip: a tie goes to the largest of the most frequent values
Mode_largest(row) ==
    LET vals == {row[r] : r \in 1..Len(row)}
        cnt(v) == Cardinality({r \in 1..Len(row) : row[r] = v})
        best == {v \in vals : \A u \in vals : cnt(u) <= cnt(v)}
    IN  CHOOSE v \in best : \A u \in best : v >= u

\* scipy.stats.mode of one row: the most frequent value, the smallest on a tie
Mode(row) ==
    LET vals == {row[r] : r \in 1..Len(row)}
        cnt(v) == Cardinality({r \in 1..Len(row) : row[r] = v})
        best == {v \in vals : \A u \in vals : cnt(u) <= cnt(v)}
    IN  CHOOSE v \in best : \A u \in best : v <= u

\* mode(self.training_set.responses, axis=1)[0].T: the majority vote per challenge
MajorityVote(resp) == [c \in 1..Len(resp) |-> Mode(resp[c])]

\* the number of challenges on which the model agrees with the majority vote;
\* test_model returns this count divided by the number of challenges
Agreements(model, resp, chal) ==
    LET majority == MajorityVote(resp)
        y_test == Eval(model, chal)
    IN  Cardinality({c \in 1..Len(chal) : majority[c] = y_test[c]})

\* a plausible slip: the comparison of the accuracy is turned around
test_model_above(model, resp, chal) ==
    FlipDen * Agreements(model, resp, chal) > FlipNum * Len(chal)

\* test_model(model) < 0.5
test_model_below(model, resp, chal) ==
    FlipDen * Agreements(model, resp, chal) < FlipNum * Len(chal)

\* ------------------------------------------------------------ the inputs
Bits == {-1, 1}

\* the weights and epsilons of the candidates: ternary
WeightValues == {-1, 0, 1}

\* the challenges of a training set: challenge c is -1 before position c
Challenges(N, n) == [c \in 1..N |-> [j \in 1..n |-> IF j < c THEN -1 ELSE 1]]

\* the N challenges of a training set
TrainChallenges(n) == Challenges(NumCh, n)

\* a row of R measurements of which the first a are +1
SortedRow(R, a) == [r \in 1..R |-> IF r <= a THEN 1 ELSE -1]

\* the response matrices of the training sets learn() is followed on: row c
\* of matrix a has (a + c) mod (R + 1) measurements +1, so the matrices have
\* unanimous rows of both signs, split rows and (R even) tied rows
TrainingResponses ==
    {[c \in 1..NumCh |-> SortedRow(NumMeas, (a + c) % (NumMeas + 1))] :
        a \in {0, 1}}

\* the responses of test_reliability_based_cmaes.py
TestResponses ==
    << <<1, 1, 1, 1>>, <<1, 1, 1, -1>>, <<1, 1, -1, -1>>, <<1, -1, -1, -1>> >>

\* the response matrices reliabilities_puf is applied to: R even and odd
AllResponses ==
    UNION {Matrices(Bits, NumCh, R) : R \in 1..(NumMeas + 1)} \cup {TestResponses}

\* response matrices with one row less or more than there are challenges
MismatchedResponses ==
    UNION {Matrices(Bits, N, R) : N \in {NumCh - 1, NumCh + 1}, R \in 1..NumMeas}

\* what a search can return: n weights and a trailing epsilon
SearchResults ==
    {Append(v, e) : v \in Vectors(WeightValues, NLen), e \in {0, InitEpsilon}}

\* the populations objective() is called with: two candidates
Populations ==
    {<<a, b>> : a \in Vectors(WeightValues, ObjLen + 1),
                b \in Vectors(WeightValues, ObjLen + 1)}

\* what the searches of the repeated runs return: the first and the second
\* unit vector and the vector of ones, each with its negation, with the epsilon
RepeatedResults ==
    {Append(v, InitEpsilon) :
        v \in { [j \in 1..NLen |-> IF j = 1 THEN 1 ELSE 0],
                [j \in 1..NLen |-> IF j = 1 THEN -1 ELSE 0],
                [j \in 1..NLen |-> IF j = 2 THEN 1 ELSE 0],
                [j \in 1..NLen |-> IF j = 2 THEN -1 ELSE 0],
                [j \in 1..NLen |-> 1],
                [j \in 1..NLen |-> -1] }}

\* the pools test_model is followed on, each one learn() assembles: the first
\* K unit vectors, and the chains of NLen, NLen - 1, ... leading ones
TestedPools ==
    { [i \in 1..K |-> [j \in 1..NLen |-> IF j = i THEN 1 ELSE 0]],
      [i \in 1..K |-> [j \in 1..NLen |-> IF j <= NLen - i + 1 THEN 1 ELSE 0]] }

\* cma.generation of a finished search, kept as an opaque count
Generations == {1}

\* random_seed (test_reliability_based_cmaes.py: seed_model = 0x2)
Seeds == {2}

\* ----------------------------------------------------------------- state
VARIABLES
    k,                      \* self.k, the number of chains to learn
    pc,                     \* "new", "init", "learn", "done"; "search" inside cma.search()
    responses,              \* training_set.responses, N rows of R measurements
    challenges,             \* training_set.challenges, N challenges of length n
    puf_reliabilities,      \* self.puf_reliabilities, in halves
    linearized_challenges,  \* self.linearized_challenges, shape (N, k, n)
    prng,                   \* self.prng: its seed and the number of draws made
    current_challenges,     \* self.current_challenges
    tf_seed,                \* the seed handed to tf.random.set_seed
    init_state,             \* init_state of the last attempt
    n_chain,                \* n_chain of learn()
    pool,                   \* pool of learn(); pool[i + 1] is Python's pool[i]
    w,                      \* w of learn(), after the sign canonicalization
    iteration_count,        \* meta_data['iteration_count']
    discard_count,          \* meta_data['discard_count']
    model,                  \* model of learn()
    y_true,                 \* y_true of the last call of test_model
    tests,                  \* number of calls of test_model
    flips,                  \* number of executions of pool[0] = -pool[0]
    state,                  \* the argument of the last call of objective()
    model_reliabilities,    \* model_reliabilities of that call
    fitness,                \* the value the last call of objective() returned
    search_log,             \* what cma.search() returned, per input, so far
    first                   \* what learn() of an earlier, equal learner returned

vars == << pc, k, responses, challenges, puf_reliabilities, linearized_challenges,
           prng, current_challenges, tf_seed, init_state, n_chain, pool, w,
           iteration_count, discard_count, model, y_true, tests, flips, state,
           model_reliabilities, fitness, search_log, first >>

learnVars == << current_challenges, tf_seed, init_state, n_chain, pool, w,
                iteration_count, discard_count, model, y_true, tests, flips >>

objVars == << state, model_reliabilities, fitness >>

\* the record of the callers and of the optimizer, no field of the learner
auxVars == << search_log, first >>

\* pc: "new" before __init__, "init" after it, "learn" in the loop of learn(),
\* "done" when learn() has returned, "error" when it has raised; "search"
\* inside cma.search().
\* the fields and locals no code has assigned yet
Blank ==
    /\ puf_reliabilities = <<>>
    /\ linearized_challenges = <<>>
    /\ prng = [seed |-> 0, pos |-> 0]
    /\ current_challenges = <<>>
    /\ tf_seed = [seed |-> 0, pos |-> 0]
    /\ init_state = [normal |-> [seed |-> 0, pos |-> 0], epsilon |-> 0]
    /\ n_chain = 0
    /\ pool = <<>>
    /\ w = <<>>
    /\ iteration_count = [i \in 0..(k - 1) |-> <<>>]
    /\ discard_count = [i \in 0..(k - 1) |-> <<>>]
    /\ model = LTFArray(<<>>)
    /\ y_true = <<>>
    /\ tests = 0
    /\ flips = 0
    /\ state = <<>>
    /\ model_reliabilities = <<>>
    /\ fitness = <<>>
    /\ search_log = {}
    /\ first = <<>>

\* ------------------------------------------------------------ the PRNG
\* one draw of the stream: the value is named by the seed and the position
Draw(g) == [seed |-> g.seed, pos |-> g.pos]

\* a plausible slip: the generator is used without being advanced (a copy of
\* it, or a generator made anew from the seed at each use)
Advance_stuck(g) == g

\* the generator after one draw
Advance(g) == [g EXCEPT !.pos = g.pos + 1]

\* ---------------------------------------------------------- __init__
\* ReliabilityBasedCMAES.__init__
Construct ==
    /\ pc = "new"
    /\ \E random_seed \in Seeds : prng' = [seed |-> random_seed, pos |-> 0]
    /\ puf_reliabilities' = reliabilities_puf(responses)
    /\ linearized_challenges' = transform_id(challenges, k)
    /\ pc' = "init"
    /\ UNCHANGED << k, responses, challenges >>
    /\ UNCHANGED learnVars
    /\ UNCHANGED objVars
    /\ UNCHANGED auxVars

\* ------------------------------------------------------------- learn()
\* learn(), up to the loop: empty pool and empty meta data
LearnStart ==
    /\ pc = "init"
    /\ pool' = <<>>
    /\ discard_count' = [i \in 0..(k - 1) |-> <<>>]
    /\ iteration_count' = [i \in 0..(k - 1) |-> <<>>]
    /\ n_chain' = 0
    /\ pc' = "learn"
    /\ UNCHANGED << k, responses, challenges, puf_reliabilities, linearized_challenges,
                    prng, current_challenges, tf_seed, init_state, w, model,
                    y_true, tests, flips >>
    /\ UNCHANGED objVars
    /\ UNCHANGED auxVars

\* self.linearized_challenges[:, n_chain, :]
ChainSlice(lin, i) == [c \in 1..Len(lin) |-> lin[c][i + 1]]

\* a plausible slip: the sign is never canonicalized
Canonical_keep(x) == x

\* w = -w if w[0] < 0 else w
Canonical(x) == IF x[1] < 0 THEN Neg(x) ELSE x

\* a plausible slip: the absolute value of the correlation is forgotten
Duplicates_signed(cand, chains) ==
    {i \in 0..(Len(chains) - 1) :
        /\ pearsonr(cand, chains[i + 1]).num > 0
        /\ AbsGreater(pearsonr(cand, chains[i + 1]), DupNum, DupDen)}

\* a plausible slip: >= instead of >
Duplicates_geq(cand, chains) ==
    {i \in 0..(Len(chains) - 1) :
        \/ AbsGreater(pearsonr(cand, chains[i + 1]), DupNum, DupDen)
        \/ AbsEqual(pearsonr(cand, chains[i + 1]), DupNum, DupDen)}

\* the Python indices i of the chains of the pool with |pearsonr(w, v)| > 0.5
Duplicates(cand, chains) ==
    {i \in 0..(Len(chains) - 1) :
        AbsGreater(pearsonr(cand, chains[i + 1]), DupNum, DupDen)}

\* a plausible slip: the chain index is not advanced
NextChain_stay(i) == i

\* n_chain += 1
NextChain(i) == i + 1

\* the total number of search attempts made so far
Attempts == SeqSum([i \in 1..k |-> Len(iteration_count[i - 1])])

\* a plausible slip: the loop over the pool goes on after a duplicate, and the
\* last one is recorded
FirstDuplicate_last(dup) == CHOOSE i \in dup : \A j \in dup : i >= j

\* the index the loop over the pool stops at: the first duplicate it meets
FirstDuplicate(dup) == CHOOSE i \in dup : \A j \in dup : i <= j

\* one pass of the while loop, given what cma.search() returns (x) and
\* cma.generation (g): the candidate joins the pool or is discarded
LoopPass(x, g) ==
    LET cand == Canonical(SubSeq(x, 1, Len(x) - 1))
        dup == Duplicates(cand, pool)
    IN  /\ current_challenges' = ChainSlice(linearized_challenges, n_chain)
        /\ tf_seed' = Draw(prng)
        /\ init_state' = [normal |-> Draw(Advance(prng)), epsilon |-> InitEpsilon]
        /\ prng' = Advance(Advance(prng))
        /\ iteration_count' = [iteration_count EXCEPT ![n_chain] = Append(@, g)]
        /\ w' = cand
        /\ IF dup # {}
           THEN /\ discard_count' =
                       [discard_count EXCEPT
                           ![n_chain] = Append(@, FirstDuplicate(dup))]
                /\ UNCHANGED << pool, n_chain >>
           ELSE /\ pool' = Append(pool, cand)
                /\ n_chain' = NextChain(n_chain)
                /\ UNCHANGED discard_count
        /\ pc' = "learn"
        /\ UNCHANGED << k, responses, challenges, puf_reliabilities,
                        linearized_challenges, model, y_true, tests, flips >>
        /\ UNCHANGED objVars

\* one pass of the while loop: a search, whose result is any vector
LearnAttempt ==
    /\ pc = "learn"
    /\ n_chain < k
    /\ Len(linearized_challenges) = Len(puf_reliabilities)
    /\ Attempts < MaxAttempts
    /\ \E x \in SearchResults, g \in Generations : LoopPass(x, g)
    /\ UNCHANGED auxVars

\* everything a search depends on: the seed of tensorflow's generator, the
\* initial solution, and the challenges and measured reliabilities objective()
\* reads
SearchInput ==
    [seed |-> Draw(prng),
     init |-> [normal |-> Draw(Advance(prng)), epsilon |-> InitEpsilon],
     chal |-> ChainSlice(linearized_challenges, n_chain),
     rel |-> puf_reliabilities]

\* one pass of the while loop with the optimizer as what it is, a function of
\* its input: a search of an input searched before returns what it returned
\* then
LearnAttemptAgain ==
    /\ pc = "learn"
    /\ n_chain < k
    /\ Len(linearized_challenges) = Len(puf_reliabilities)
    /\ Attempts < MaxAttempts
    /\ \E x \in RepeatedResults, g \in Generations :
         /\ \A e \in search_log : e.input = SearchInput => (e.x = x /\ e.g = g)
         /\ LoopPass(x, g)
         /\ search_log' = search_log \cup {[input |-> SearchInput, x |-> x, g |-> g]}
    /\ UNCHANGED first

\* the caller keeps what learn() returned and constructs a second learner with
\* the arguments of the first (__init__)
Rerun ==
    /\ pc = "done"
    /\ first = <<>>
    /\ first' = [model |-> model,
                 meta_data |-> [discard_count |-> discard_count,
                                iteration_count |-> iteration_count]]
    /\ prng' = [seed |-> prng.seed, pos |-> 0]
    /\ puf_reliabilities' = reliabilities_puf(responses)
    /\ linearized_challenges' = transform_id(challenges, k)
    /\ current_challenges' = <<>>
    /\ tf_seed' = [seed |-> 0, pos |-> 0]
    /\ init_state' = [normal |-> [seed |-> 0, pos |-> 0], epsilon |-> 0]
    /\ n_chain' = 0
    /\ pool' = <<>>
    /\ w' = <<>>
    /\ iteration_count' = [i \in 0..(k - 1) |-> <<>>]
    /\ discard_count' = [i \in 0..(k - 1) |-> <<>>]
    /\ model' = LTFArray(<<>>)
    /\ y_true' = <<>>
    /\ tests' = 0
    /\ flips' = 0
    /\ pc' = "init"
    /\ UNCHANGED << k, responses, challenges, search_log >>
    /\ UNCHANGED objVars

\* one pass of the while loop of a learner whose training set has not as many
\* challenges as rows of responses: the search calls objective(), where
\* tf.tensordot of the N' measured and the N modelled reliabilities raises
\* (tensorflow's InvalidArgumentError), which ends learn()
SearchFails ==
    /\ pc = "learn"
    /\ n_chain < k
    /\ Len(linearized_challenges) # Len(puf_reliabilities)
    /\ current_challenges' = ChainSlice(linearized_challenges, n_chain)
    /\ tf_seed' = Draw(prng)
    /\ init_state' = [normal |-> Draw(Advance(prng)), epsilon |-> InitEpsilon]
    /\ prng' = Advance(Advance(prng))
    /\ pc' = "error"
    /\ UNCHANGED << k, responses, challenges, puf_reliabilities, linearized_challenges,
                    n_chain, pool, w, iteration_count, discard_count, model,
                    y_true, tests, flips >>
    /\ UNCHANGED objVars
    /\ UNCHANGED auxVars

\* a plausible slip: every chain is negated
FlipFirst_all(chains) == [i \in 1..Len(chains) |-> Neg(chains[i])]

\* pool[0] = -pool[0]
FlipFirst(chains) == [chains EXCEPT ![1] = Neg(chains[1])]

\* learn(), after the loop: the model is built and tested once, and the first
\* chain is negated when the accuracy is below 0.5
Polarize ==
    /\ pc = "learn"
    /\ ~(n_chain < k)
    /\ tests' = tests + 1
    /\ y_true' = MajorityVote(responses)
    /\ IF test_model_below(LTFArray(pool), responses, challenges)
       THEN /\ pool' = FlipFirst(pool)
            /\ model' = LTFArray(FlipFirst(pool))
            /\ flips' = flips + 1
       ELSE /\ model' = LTFArray(pool)
            /\ UNCHANGED << pool, flips >>
    /\ pc' = "done"
    /\ UNCHANGED << k, responses, challenges, puf_reliabilities, linearized_challenges,
                    prng, current_challenges, tf_seed, init_state, n_chain, w,
                    iteration_count, discard_count >>
    /\ UNCHANGED objVars
    /\ UNCHANGED auxVars

\* ---------------------------------------------------------- objective()
\* the call of objective() by the search, with the population state
Objective ==
    /\ pc = "search"
    /\ fitness = <<>>
    /\ model_reliabilities' = ModelReliabilities(state, ObjLen, current_challenges)
    /\ fitness' = objective(state, ObjLen, current_challenges, puf_reliabilities)
    /\ UNCHANGED << pc, k, responses, challenges, puf_reliabilities,
                    linearized_challenges, prng, state >>
    /\ UNCHANGED learnVars
    /\ UNCHANGED auxVars

\* ------------------------------------------------------- specifications
\* learn() on a training set
Init ==
    /\ pc = "new"
    /\ k = K
    /\ responses \in TrainingResponses
    /\ challenges = TrainChallenges(NLen)
    /\ Blank

Next == Construct \/ LearnStart \/ LearnAttempt \/ Polarize

Spec == Init /\ [][Next]_vars

\* reliabilities_puf, applied by __init__ to every response matrix
InitPuf ==
    /\ pc = "new"
    /\ k = K
    /\ responses \in AllResponses
    /\ challenges = TrainChallenges(NLen)
    /\ Blank

NextPuf == Construct

SpecPuf == InitPuf /\ [][NextPuf]_vars

\* objective(), called inside a search of a constructed learner
InitObj ==
    /\ pc = "search"
    /\ k = K
    /\ responses \in TrainingResponses
    /\ challenges = TrainChallenges(ObjLen)
    /\ \E random_seed \in Seeds : prng = [seed |-> random_seed, pos |-> 0]
    /\ puf_reliabilities = reliabilities_puf(responses)
    /\ linearized_challenges = transform_id(challenges, k)
    /\ current_challenges = ChainSlice(linearized_challenges, 0)
    /\ tf_seed = [seed |-> 0, pos |-> 0]
    /\ init_state = [normal |-> [seed |-> 0, pos |-> 0], epsilon |-> 0]
    /\ n_chain = 0
    /\ pool = <<>>
    /\ w = <<>>
    /\ iteration_count = [i \in 0..(k - 1) |-> <<>>]
    /\ discard_count = [i \in 0..(k - 1) |-> <<>>]
    /\ model = LTFArray(<<>>)
    /\ y_true = <<>>
    /\ tests = 0
    /\ flips = 0
    /\ state \in Populations
    /\ model_reliabilities = <<>>
    /\ fitness = <<>>
    /\ search_log = {}
    /\ first = <<>>

NextObj == Objective

SpecObj == InitObj /\ [][NextObj]_vars

\* the pools of K chains that learn() assembles of the vectors of zeros and
\* ones with a leading one and zeros behind the third component
DeepPools ==
    {p \in [1..K -> {v \in Vectors({0, 1}, NLen) :
                        v[1] = 1 /\ \A j \in 4..NLen : v[j] = 0}] :
        \A i \in 2..K : Duplicates(p[i], SubSeq(p, 1, i - 1)) = {}}

\* learn() of a learner of K + 1 chains, from the pass of the loop on: K
\* chains are in the pool, each the candidate of the first search for it
InitDeep ==
    /\ pc = "learn"
    /\ k = K + 1
    /\ responses \in TrainingResponses
    /\ challenges = TrainChallenges(NLen)
    /\ \E random_seed \in Seeds :
         /\ prng = [seed |-> random_seed, pos |-> 2 * K]
         /\ tf_seed = [seed |-> random_seed, pos |-> 2 * K - 2]
         /\ init_state = [normal |-> [seed |-> random_seed, pos |-> 2 * K - 1],
                          epsilon |-> InitEpsilon]
    /\ puf_reliabilities = reliabilities_puf(responses)
    /\ linearized_challenges = transform_id(challenges, k)
    /\ current_challenges = ChainSlice(linearized_challenges, K - 1)
    /\ n_chain = K
    /\ pool \in DeepPools
    /\ w = pool[K]
    /\ \E g \in Generations :
         iteration_count = [i \in 0..(k - 1) |-> IF i < K THEN <<g>> ELSE <<>>]
    /\ discard_count = [i \in 0..(k - 1) |-> <<>>]
    /\ model = LTFArray(<<>>)
    /\ y_true = <<>>
    /\ tests = 0
    /\ flips = 0
    /\ state = <<>>
    /\ model_reliabilities = <<>>
    /\ fitness = <<>>
    /\ search_log = {}
    /\ first = <<>>

NextDeep == LearnAttempt \/ Polarize

SpecDeep == InitDeep /\ [][NextDeep]_vars

\* learn() of a learner, and then of a second learner constructed with the
\* same arguments
NextRerun == Construct \/ LearnStart \/ LearnAttemptAgain \/ Polarize \/ Rerun

SpecRerun == Init /\ [][NextRerun]_vars

\* __init__ and learn() on a training set whose challenges and responses
\* differ in number
InitShape ==
    /\ pc = "new"
    /\ k = K
    /\ responses \in MismatchedResponses
    /\ challenges = TrainChallenges(NLen)
    /\ Blank

NextShape == Construct \/ LearnStart \/ SearchFails

SpecShape == InitShape /\ [][NextShape]_vars

\* test_model and the polarity, at the end of a loop of learn() that accepted
\* every candidate, on every response matrix
InitVote ==
    /\ pc = "learn"
    /\ k = K
    /\ responses \in AllResponses
    /\ challenges = Challenges(Len(responses), NLen)
    /\ \E random_seed \in Seeds :
         /\ prng = [seed |-> random_seed, pos |-> 2 * K]
         /\ tf_seed = [seed |-> random_seed, pos |-> 2 * K - 2]
         /\ init_state = [normal |-> [seed |-> random_seed, pos |-> 2 * K - 1],
                          epsilon |-> InitEpsilon]
    /\ puf_reliabilities = reliabilities_puf(responses)
    /\ linearized_challenges = transform_id(challenges, k)
    /\ current_challenges = ChainSlice(linearized_challenges, K - 1)
    /\ n_chain = K
    /\ pool \in TestedPools
    /\ w = pool[K]
    /\ iteration_count \in [0..(K - 1) -> {<<g>> : g \in Generations}]
    /\ discard_count = [i \in 0..(k - 1) |-> <<>>]
    /\ model = LTFArray(<<>>)
    /\ y_true = <<>>
    /\ tests = 0
    /\ flips = 0
    /\ state = <<>>
    /\ model_reliabilities = <<>>
    /\ fitness = <<>>
    /\ search_log = {}
    /\ first = <<>>

NextVote == Polarize

SpecVote == InitVote /\ [][NextVote]_vars

\* ================================================================ claims
\* the number of +1 entries of a row
CountPlus(row) == Cardinality({r \in 1..Len(row) : row[r] = 1})

\* all entries of a vector are equal
IsConstant(v) == \A a \in 1..Len(v) : \A b \in 1..Len(v) : v[a] = v[b]

\* the chains of a pool, as a set
Range(chains) == {chains[i] : i \in 1..Len(chains)}

\* C1: for every response matrix (R even or odd) the measured reliability of
\* a row is |R/2 - number of +1 entries|, unnormalized: 0 for a half/half
\* split, R/2 for a unanimous row (also in a matrix without any -1), and
\* always between 0 and R/2.  In halves: |R - 2 * count|, 0, R and 0..R.
C1_MeasuredReliability ==
    pc = "init" =>
        /\ Len(puf_reliabilities) = Len(responses)
        /\ \A c \in 1..Len(responses) :
             LET R == Len(responses[c])
                 plus == CountPlus(responses[c])
             IN  /\ puf_reliabilities[c] = Abs(R - 2 * plus)
                 /\ puf_reliabilities[c] \in 0..R
                 /\ (2 * plus = R => puf_reliabilities[c] = 0)
                 /\ (plus \in {0, R} => puf_reliabilities[c] = R)

\* C1 witness: a matrix without any -1, R odd, every row unanimous
C1_Witness ==
    /\ pc = "init"
    /\ ~HasMinusOne(responses)
    /\ Len(responses[1]) % 2 = 1
    /\ Len(responses[1]) > 1
    /\ \A c \in 1..Len(responses) : puf_reliabilities[c] = Len(responses[c])

\* C2, as claimed: the measured reliability of a row is the absolute value
\* of the sum of the row, [4, 2, 0, 2] for the rows of the test.  In halves:
\* 2 * |sum| and [8, 4, 0, 4].
C2_AbsRowSum ==
    pc = "init" =>
        /\ \A c \in 1..Len(responses) :
             puf_reliabilities[c] = 2 * Abs(SeqSum(responses[c]))
        /\ (responses = TestResponses => puf_reliabilities = <<8, 4, 0, 4>>)

\* C2, amended: the measured reliability of a row is HALF the absolute value
\* of the sum of the row, [2, 1, 0, 1] for the rows of the test.  In halves:
\* |sum| and [4, 2, 0, 2].
C2_HalfAbsRowSum ==
    pc = "init" =>
        /\ \A c \in 1..Len(responses) :
             puf_reliabilities[c] = Abs(SeqSum(responses[c]))
        /\ (responses = TestResponses => puf_reliabilities = <<4, 2, 0, 2>>)

\* C2 witness: the learner constructed on the responses of the test
C2_Witness ==
    /\ pc = "init"
    /\ responses = TestResponses
    /\ puf_reliabilities = <<4, 2, 0, 2>>

\* C3: objective() marks challenge c reliable for candidate p exactly when
\* the absolute delay margin of p on c is strictly greater than p's own
\* epsilon, the last component of p's vector; the marks are 0 and 1 only.
C3_StrictOwnEpsilon ==
    fitness # <<>> =>
        /\ Len(model_reliabilities) = Len(current_challenges)
        /\ \A c \in 1..Len(current_challenges) :
             /\ Len(model_reliabilities[c]) = Len(state)
             /\ \A p \in 1..Len(state) :
                  LET d == Dot(SubSeq(state[p], 1, ObjLen), current_challenges[c])
                      own == state[p][ObjLen + 1]
                  IN  /\ model_reliabilities[c][p] \in {0, 1}
                      /\ model_reliabilities[c][p] = 1 <=> Abs(d) > own

\* C3 witness: a margin that equals the candidate's own epsilon is marked 0,
\* although it exceeds the other candidate's epsilon, which marks 1
C3_Witness ==
    /\ fitness # <<>>
    /\ \E c \in 1..Len(current_challenges) :
         LET d1 == Dot(SubSeq(state[1], 1, ObjLen), current_challenges[c])
             d2 == Dot(SubSeq(state[2], 1, ObjLen), current_challenges[c])
         IN  /\ Abs(d1) = state[1][ObjLen + 1]
             /\ Abs(d1) > state[2][ObjLen + 1]
             /\ Abs(d2) = Abs(d1)
             /\ model_reliabilities[c][1] = 0
             /\ model_reliabilities[c][2] = 1

\* C4: when the modelled reliabilities of a candidate are constant, or the
\* measured reliabilities are, the correlation is taken as 0 and the
\* objective of the candidate is the number 1, never NaN.
C4_DegenerateFallback ==
    fitness # <<>> =>
        \A p \in 1..Len(state) :
            (IsConstant(Column(model_reliabilities, p)) \/ IsConstant(puf_reliabilities))
                => IsValue(fitness[p], 1)

\* a step of learn() that made a search attempt
AttemptStep == Attempts' = Attempts + 1

\* the attempt of this step put its candidate w' into the pool
Accepted == pool' = Append(pool, w') /\ n_chain' = n_chain + 1

\* the attempt of this step left the pool and the chain index alone
Discarded == pool' = pool /\ n_chain' = n_chain

\* no two chains of a pool correlate beyond the duplicate threshold
NoDuplicates(chains) ==
    \A i \in 1..Len(chains) : \A j \in 1..Len(chains) :
        i # j => ~AbsGreater(pearsonr(chains[i], chains[j]), DupNum, DupDen)

\* C5: in every state of learn(), and in the returned model (also after the
\* polarity flip), no two distinct chains have an absolute Pearson
\* correlation exceeding the duplicate threshold 0.5.
C5_PoolInvariant ==
    /\ NoDuplicates(pool)
    /\ NoDuplicates(model.weight_array)

\* C5 witness: learn() has returned a flipped model of k different chains
\* that correlate (below the threshold)
C5_Witness ==
    /\ pc = "done"
    /\ flips = 1
    /\ Len(model.weight_array) = K
    /\ model.weight_array[1] # model.weight_array[2]
    /\ pearsonr(model.weight_array[1], model.weight_array[2]).num # 0

\* C6: the pool changes its size only when a candidate is accepted, and then
\* by one, appended behind the others; it never shrinks; n_chain is the pool
\* size at every attempt, which searches the challenge slice of that index;
\* the loop ends exactly when the pool has k chains, and the returned model
\* has k chains.
C6_PoolGrowth ==
    [][ /\ Len(pool') # Len(pool) => AttemptStep /\ Accepted
        /\ AttemptStep =>
             /\ n_chain = Len(pool)
             /\ n_chain < K
             /\ current_challenges' = ChainSlice(linearized_challenges, Len(pool))
             /\ n_chain' = Len(pool')
        /\ (pc = "learn" /\ pc' = "done") =>
             /\ Len(pool) = K
             /\ n_chain = K
             /\ Len(model'.weight_array) = K
        /\ (pc = "learn" /\ Len(pool) = K) => ~AttemptStep
      ]_vars

\* C6 witness: a pool of k chains, the second accepted after a discard
C6_Witness ==
    /\ pc = "learn"
    /\ Len(pool) = K
    /\ n_chain = K
    /\ Len(discard_count[1]) = 1
    /\ Len(iteration_count[1]) = 2

\* A candidate is one of the pool's chains or the negation of one exactly
\* when its canonical form w' is: the canonical form of v is v or -v.
IsCopy == \E v \in Range(pool) : w' = v \/ w' = Neg(v)

\* C7: a candidate that is identical to a chain of the pool, or the negation
\* of one, is never accepted: pool and chain index stay as they are and
\* learn() goes on searching for the same index.
C7_CopyRejected ==
    [][ (AttemptStep /\ IsCopy) => (Discarded /\ pc' = "learn" /\ n_chain' < K)
      ]_vars

\* every correlation of the candidate w' with a chain of the pool is defined
AllDefined == \A v \in Range(pool) : ~pearsonr(w', v).nan

\* C8, as claimed: a candidate joins the pool only if its absolute
\* correlation with every chain of the pool is strictly below the threshold;
\* every other one, also one at the threshold exactly, is discarded and the
\* search retried; the first candidate is always accepted.  (Stated of the
\* candidates whose correlations are all defined.)
C8_StrictlyBelow ==
    [][ (AttemptStep /\ AllDefined) =>
          /\ Accepted <=>
                \A v \in Range(pool) : AbsLess(pearsonr(w', v), DupNum, DupDen)
          /\ ~Accepted => (Discarded /\ pc' = "learn")
          /\ pool = <<>> => Accepted
      ]_vars

\* C8, amended: a candidate joins the pool exactly when the comparison
\* |correlation| > threshold is true of no chain of the pool, so one at the
\* threshold exactly is accepted (and so is one whose correlation is
\* undefined, of which the comparison is false); every other one is
\* discarded and the search retried; the first candidate is always accepted.
C8_NotExceeding ==
    [][ AttemptStep =>
          /\ Accepted <=>
                \A v \in Range(pool) : ~AbsGreater(pearsonr(w', v), DupNum, DupDen)
          /\ ~Accepted => (Discarded /\ pc' = "learn" /\ n_chain' < K)
          /\ pool = <<>> => Accepted
      ]_vars

\* C8 witness: a pool whose two chains correlate at the threshold exactly
C8_Witness ==
    /\ pc = "learn"
    /\ Len(pool) = K
    /\ AbsEqual(pearsonr(pool[1], pool[2]), DupNum, DupDen)

\* the retry ceiling of the claim: any number of attempts the model follows
RetryCeiling == MaxAttempts

\* C9: the number of search attempts is bounded by a retry ceiling: once it
\* is reached learn() searches no more (it has its k chains or has failed).
C9_RetryCeiling ==
    (pc = "learn" /\ n_chain < K) => Attempts < RetryCeiling

\* C10: the polarity is resolved once: the model of the pool is tested once;
\* if the agreement is below 0.5 the first chain is negated, else the pool
\* is used as it is; the chains behind the first are the accepted ones; no
\* second test and no second flip happen.
C10_OneFlip ==
    /\ [][ (pc = "learn" /\ pc' = "done") =>
             LET agree == Agreements(LTFArray(pool), responses, challenges)
                 below == 2 * agree < Len(challenges)
             IN  /\ Len(pool) = K
                 /\ tests' = tests + 1
                 /\ flips' = flips + (IF below THEN 1 ELSE 0)
                 /\ model'.weight_array[1] = IF below THEN Neg(pool[1]) ELSE pool[1]
                 /\ \A i \in 2..K : model'.weight_array[i] = pool[i]
                 /\ Len(model'.weight_array) = K
                 /\ pool' = model'.weight_array
         ]_vars
    /\ [][ pc = "done" => UNCHANGED << pool, model, tests, flips >> ]_vars
    /\ [](tests <= 1 /\ flips <= 1 /\ (pc = "done" <=> tests = 1))

\* C10 witness: learn() has returned after the one flip; the second chain is
\* the accepted candidate
C10_Witness ==
    /\ pc = "done"
    /\ tests = 1
    /\ flips = 1
    /\ model.weight_array[K] = w
    /\ model.weight_array[1][1] < 0

\* the challenges on which the combined value of the chains is exactly 0
ZeroValues(chains) ==
    {c \in 1..Len(challenges) : Eval(LTFArray(chains), challenges)[c] = 0}

\* the step of learn() that builds, tests and returns the model
ReturnStep == pc = "learn" /\ pc' = "done"

\* C11, as claimed: the negation of the first chain turns the agreement a of
\* the model into 1 - a exactly, also when a weighted sum is 0 or a row of
\* measurements is tied, and the returned model has agreement >= 0.5.  In
\* counts of challenges: N - agreements, and 2 * agreements >= N.
C11_FlipComplements ==
    [][ ReturnStep =>
          /\ flips' = flips + 1 =>
                Agreements(model', responses, challenges) =
                    Len(challenges) - Agreements(LTFArray(pool), responses, challenges)
          /\ 2 * Agreements(model', responses, challenges) >= Len(challenges)
      ]_vars

\* C11, amended: the negation of the first chain turns the agreement a into
\* 1 - a - z, where z is the share of the challenges whose combined value is
\* exactly 0 (the model answers 0 there before and after the negation, which
\* agrees with no majority vote); so it is 1 - a exactly when no combined
\* value is 0, tied rows included, and then the returned model has agreement
\* >= 0.5.
C11_FlipComplementsNonzero ==
    [][ ReturnStep =>
          LET N == Len(challenges)
              z == Cardinality(ZeroValues(pool))
              before == Agreements(LTFArray(pool), responses, challenges)
              after == Agreements(model', responses, challenges)
          IN  /\ flips' = flips + 1 => after = N - z - before
              /\ flips' = flips => after = before
              /\ z = 0 => 2 * after >= N
              /\ ZeroValues(model'.weight_array) = ZeroValues(pool)
      ]_vars

\* C11 witness: a model that disagreed with every majority vote, one of them
\* of a tied row, was flipped and now agrees with every one
C11_Witness ==
    /\ pc = "done"
    /\ flips = 1
    /\ ZeroValues(model.weight_array) = {}
    /\ \E c \in 1..Len(responses) : 2 * CountPlus(responses[c]) = Len(responses[c])
    /\ Agreements(model, responses, challenges) = Len(challenges)

\* the number of -1 entries of a row
CountMinus(row) == Cardinality({r \in 1..Len(row) : row[r] = -1})

\* C12, as claimed: the majority vote of a challenge is +1 when the +1
\* measurements outnumber the -1 ones, -1 when the -1 ones outnumber the +1
\* ones and 0 when they are tied, whatever the order of the measurements:
\* [1, 1, 0, -1] for the rows of the test.
C12_TieIsZero ==
    pc = "done" =>
        /\ Len(y_true) = Len(responses)
        /\ \A c \in 1..Len(responses) :
             y_true[c] = Sign(CountPlus(responses[c]) - CountMinus(responses[c]))
        /\ (responses = TestResponses => y_true = <<1, 1, 0, -1>>)

\* C12, amended: the majority vote of a challenge is +1 when the +1
\* measurements outnumber the -1 ones and -1 otherwise, a tie included,
\* whatever the order of the measurements: [1, 1, -1, -1] for the rows of the
\* test.
C12_TieIsMinusOne ==
    pc = "done" =>
        /\ Len(y_true) = Len(responses)
        /\ \A c \in 1..Len(responses) :
             y_true[c] = IF CountPlus(responses[c]) > CountMinus(responses[c])
                         THEN 1 ELSE -1
        /\ (responses = TestResponses => y_true = <<1, 1, -1, -1>>)

\* C12 witness: test_model has voted on the rows of the test
C12_Witness ==
    /\ pc = "done"
    /\ responses = TestResponses
    /\ y_true = <<1, 1, -1, -1>>

\* C13: a learner whose training set has not as many challenges as rows of
\* responses fails before any chain search begins: it never returns a model,
\* no search attempt is started (no challenge slice is taken, no seed is
\* set), no PRNG draw is made, and the failure leaves no learner state set.
C13_FailsFast ==
    Len(challenges) # Len(responses) =>
        /\ pc # "done"
        /\ prng.pos = 0
        /\ current_challenges = <<>>
        /\ tf_seed = [seed |-> 0, pos |-> 0]
        /\ Attempts = 0
        /\ pc = "error" => (puf_reliabilities = <<>> /\ linearized_challenges = <<>>)

\* what learn() returns: the model and the meta data
Returned ==
    [model |-> model,
     meta_data |-> [discard_count |-> discard_count,
                    iteration_count |-> iteration_count]]

\* C14: the seed of the optimizer's sampling and the initial weights of every
\* attempt are consecutive draws of the one generator made from random_seed,
\* which advances at every attempt, accepted or discarded; so no attempt of a
\* run starts from the seed or the initial state of an earlier one (a retry
\* is a new search), and a second run with the same random_seed and training
\* set makes the attempts of the first, with the same seeds and initial
\* states, and returns the same model and meta data.
C14_Reproducible ==
    /\ [][ AttemptStep =>
             /\ prng.pos = 2 * Attempts
             /\ tf_seed' = [seed |-> prng.seed, pos |-> prng.pos]
             /\ init_state'.normal = [seed |-> prng.seed, pos |-> prng.pos + 1]
             /\ prng' = [seed |-> prng.seed, pos |-> prng.pos + 2]
             /\ Attempts > 0 => (tf_seed' # tf_seed /\ init_state' # init_state)
         ]_vars
    /\ [][ first # <<>> => (first' = first /\ search_log' = search_log) ]_vars
    /\ [](pc # "new" => prng.seed \in Seeds)
    /\ []((first = <<>> /\ pc # "done") => Cardinality(search_log) = Attempts)
    /\ [](\A d \in search_log : \A e \in search_log :
             d # e => (d.input.seed # e.input.seed /\ d.input.init # e.input.init))
    /\ []((pc = "done" /\ first # <<>>) => Returned = first)

\* C14 witness: the second run has returned what the first returned, each
\* after a discarded attempt and a retry
C14_Witness ==
    /\ pc = "done"
    /\ first # <<>>
    /\ Returned = first
    /\ Len(discard_count[1]) >= 1
    /\ Cardinality(search_log) = K + 1

\* the search result of the attempt a step has made
LastResult == (CHOOSE e \in search_log' : e.input.seed = tf_seed').x

\* C15: the candidate of every attempt is the search result without its
\* trailing epsilon (n components), negated as a whole when its first
\* component is negative, and it is this vector that is compared with the
\* pool and appended to it; so every chain of the pool has a first component
\* >= 0 during the assembly, and in the returned model only chain 0 can have a
\* negative first component, and only after the polarity flip.
C15_CanonicalFirst ==
    /\ [][ AttemptStep =>
             /\ \E e \in search_log' : e.input.seed = tf_seed'
             /\ Len(LastResult) = NLen + 1
             /\ Len(w') = NLen
             /\ \A j \in 1..NLen :
                  w'[j] = IF LastResult[1] < 0 THEN -LastResult[j] ELSE LastResult[j]
             /\ w'[1] >= 0
             /\ Discarded <=>
                   \E v \in Range(pool) : AbsGreater(pearsonr(w', v), DupNum, DupDen)
             /\ ~Discarded => pool' = Append(pool, w')
         ]_vars
    /\ [](pc # "done" =>
             \A i \in 1..Len(pool) : Len(pool[i]) = NLen /\ pool[i][1] >= 0)
    /\ [](pc = "done" =>
             \A i \in 1..Len(model.weight_array) :
                /\ Len(model.weight_array[i]) = NLen
                /\ model.weight_array[i][1] < 0 => (i = 1 /\ flips = 1))

\* C15 witness: a returned model whose second chain was found with a negative
\* first component and whose first chain was negated by the polarity flip
C15_Witness ==
    /\ pc = "done"
    /\ flips = 1
    /\ model.weight_array[1][1] < 0
    /\ model.weight_array[K][1] > 0
    /\ \E e \in search_log : e.x[1] < 0 /\ Neg(SubSeq(e.x, 1, NLen)) = model.weight_array[K]

\* the indices of the chains of the pool that the candidate w' of a step
\* correlates with beyond the threshold
Correlated ==
    {i \in 0..(Len(pool) - 1) : AbsGreater(pearsonr(w', pool[i + 1]), DupNum, DupDen)}

\* C16: an attempt for the index i = n_chain appends one entry to
\* iteration_count[i] and leaves the other lists of iteration_count alone; a
\* discarded attempt appends one entry to discard_count[i], the lowest index
\* of a chain of the pool that the candidate correlates with beyond the
\* threshold, which is < i; an accepted attempt leaves discard_count alone;
\* no other step changes the meta data; so when learn() returns,
\* len(iteration_count[i]) = len(discard_count[i]) + 1 for every i, and
\* discard_count[0] is empty.
C16_MetaData ==
    /\ [][ AttemptStep =>
             /\ iteration_count' =
                   [iteration_count EXCEPT ![n_chain] = Append(@, iteration_count'[n_chain][Len(@) + 1])]
             /\ Len(iteration_count'[n_chain]) = Len(iteration_count[n_chain]) + 1
             /\ Accepted \/ Discarded
             /\ Accepted => (Correlated = {} /\ discard_count' = discard_count)
             /\ Discarded =>
                   /\ Correlated # {}
                   /\ \E d \in Correlated :
                        /\ \A e \in Correlated : d <= e
                        /\ d < n_chain
                        /\ discard_count' =
                              [discard_count EXCEPT ![n_chain] = Append(@, d)]
         ]_vars
    /\ [][ (~AttemptStep /\ pc # "init" /\ pc # "done") =>
             UNCHANGED << iteration_count, discard_count >> ]_vars
    /\ [](discard_count[0] = <<>>)
    /\ [](pc = "done" =>
             \A i \in 0..(k - 1) :
                Len(iteration_count[i]) = Len(discard_count[i]) + 1)

\* C16 witness: the candidate of a third chain correlates with both chains
\* of the pool, is discarded, and the index of the first chain is recorded
C16_Witness ==
    /\ pc = "learn"
    /\ k > 2
    /\ Len(pool) = 2
    /\ Duplicates(w, pool) = {0, 1}
    /\ discard_count[2] = <<0>>
    /\ Len(iteration_count[2]) = 1

====
